---- MODULE Spec2Model ----
(***************************************************************************)
(* Model of finance.py, the Kitchener Finance dashboard: a Streamlit       *)
(* script whose main() is re-run from top to bottom on every user          *)
(* interaction.  A run fetches the "Payments" worksheet, cleans it, and    *)
(* renders a year view and a month view.                                   *)
(*                                                                         *)
(* Text is modelled as a sequence of one-character strings so that strip,  *)
(* replace, contains and the parsers are computed, not assumed.            *)
(* An optional value (None, NaN, NaT) is <<>>; a present value v is <<v>>. *)
(* Money is an integer number of cents.                                    *)
(***************************************************************************)
EXTENDS Integers, Sequences, FiniteSets, TLC

\* ------------------------------------------------------------ bounds
\* Largest number of data rows the worksheet grows to.
MaxRows == 2
\* Largest number of fetches a behaviour performs.
MaxFetches == 2
\* Largest number of connection objects a behaviour creates.
MaxConnections == 2

\* ------------------------------------------------------------ text
None == <<>>

Some(v) == <<v>>

IsSpace(c) == c = " "

RECURSIVE LStrip(_)
LStrip(s) ==
    IF s # <<>> /\ IsSpace(Head(s)) THEN LStrip(Tail(s)) ELSE s

RECURSIVE RStrip(_)
RStrip(s) ==
    IF s # <<>> /\ IsSpace(s[Len(s)]) THEN RStrip(SubSeq(s, 1, Len(s) - 1)) ELSE s

\* str.strip(): surrounding whitespace removed, inner whitespace kept.
Strip(s) == RStrip(LStrip(s))

\* str.replace(c, ''): every occurrence of the character c removed.
RECURSIVE RemoveChar(_, _)
RemoveChar(s, c) ==
    IF s = <<>> THEN <<>>
    ELSE IF Head(s) = c THEN RemoveChar(Tail(s), c)
    ELSE <<Head(s)>> \o RemoveChar(Tail(s), c)

UpperLetters ==
    <<"A","B","C","D","E","F","G","H","I","J","K","L","M",
      "N","O","P","Q","R","S","T","U","V","W","X","Y","Z">>

LowerLetters ==
    <<"a","b","c","d","e","f","g","h","i","j","k","l","m",
      "n","o","p","q","r","s","t","u","v","w","x","y","z">>

\* Each upper-case letter's lower-case letter.
LowerOf ==
    [c \in {UpperLetters[i] : i \in DOMAIN UpperLetters} |->
        LowerLetters[CHOOSE i \in DOMAIN UpperLetters : UpperLetters[i] = c]]

LowerChar(c) == IF c \in DOMAIN LowerOf THEN LowerOf[c] ELSE c

Lower(s) == [i \in DOMAIN s |-> LowerChar(s[i])]

\* pat occurs in s as a contiguous substring.
IsSubstring(pat, s) ==
    \E k \in 0..(Len(s) - Len(pat)) : SubSeq(s, k + 1, k + Len(pat)) = pat

\* The mutant of StrContains: the match is case-sensitive.
StrContainsCaseSensitive(s, pat) == IsSubstring(pat, s)

\* Series.str.contains(pat, case=False) for a pattern without regex
\* metacharacters.
StrContains(s, pat) == IsSubstring(Lower(pat), Lower(s))

DigitChars == <<"0","1","2","3","4","5","6","7","8","9">>

\* Each digit character's value.
DigitOf ==
    [c \in {DigitChars[i] : i \in DOMAIN DigitChars} |->
        (CHOOSE i \in DOMAIN DigitChars : DigitChars[i] = c) - 1]

IsDigit(c) == c \in DOMAIN DigitOf

DigitVal(c) == DigitOf[c]

AllDigits(s) == \A i \in DOMAIN s : IsDigit(s[i])

RECURSIVE DecVal(_)
DecVal(s) ==
    IF s = <<>> THEN 0
    ELSE 10 * DecVal(SubSeq(s, 1, Len(s) - 1)) + DigitVal(s[Len(s)])

\* ------------------------------------------------------------ constants
\* The column names and the doctor patterns of the script.
H_Date == <<"D","a","t","e">>

H_Sender == <<"S","e","n","d","e","r">>

H_Amount == <<"A","m","o","u","n","t">>

H_Doctor == <<"D","o","c","t","o","r">>

PatTripic == <<"T","r","i","p","i","c">>

PatCartagena == <<"C","a","r","t","a","g","e","n","a">>

AllMonths == "All Months"

\* ------------------------------------------------------------ parsers
IsLeap(y) == (y % 4 = 0 /\ y % 100 # 0) \/ y % 400 = 0

DaysIn(y, m) ==
    IF m = 2 THEN (IF IsLeap(y) THEN 29 ELSE 28)
    ELSE IF m \in {4, 6, 9, 11} THEN 30 ELSE 31

\* The text has the shape DDDD-DD-DD.
IsIsoShape(s) ==
    /\ Len(s) = 10
    /\ s[5] = "-"
    /\ s[8] = "-"
    /\ AllDigits(SubSeq(s, 1, 4))
    /\ AllDigits(SubSeq(s, 6, 7))
    /\ AllDigits(SubSeq(s, 9, 10))

IsoDate(s) ==
    [year |-> DecVal(SubSeq(s, 1, 4)),
     month |-> DecVal(SubSeq(s, 6, 7)),
     day |-> DecVal(SubSeq(s, 9, 10))]

\* The mutant of ToDatetime: the day is checked against 1..31 only, not
\* against the length of its month.
ToDatetimeAnyDay(s) ==
    IF ~IsIsoShape(s) THEN None
    ELSE LET d == IsoDate(s) IN
         IF d.month \in 1..12 /\ d.day \in 1..31 THEN Some(d) ELSE None

\* pd.to_datetime(text, errors='coerce') on one cell: the calendar date, or
\* NaT (None).  The model reads the ISO form year-month-day, the form every
\* date of the row pool below is written in; any other text is NaT.
ToDatetime(s) ==
    IF ~IsIsoShape(s) THEN None
    ELSE LET d == IsoDate(s) IN
         IF d.month \in 1..12 /\ d.day \in 1..DaysIn(d.year, d.month)
         THEN Some(d) ELSE None

\* pd.to_numeric(text, errors='coerce') on one cell, in cents: digits with an
\* optional fraction of one or two digits; anything else is NaN (None).
ToNumeric(s) ==
    LET dots == {i \in DOMAIN s : s[i] = "."} IN
    IF s = <<>> THEN None
    ELSE IF dots = {} THEN
         (IF AllDigits(s) THEN Some(100 * DecVal(s)) ELSE None)
    ELSE IF Cardinality(dots) > 1 THEN None
    ELSE LET p == CHOOSE i \in dots : TRUE
             whole == SubSeq(s, 1, p - 1)
             frac == SubSeq(s, p + 1, Len(s))
         IN IF /\ whole # <<>> /\ AllDigits(whole)
               /\ Len(frac) \in 1..2 /\ AllDigits(frac)
            THEN Some(100 * DecVal(whole)
                      + (IF Len(frac) = 1 THEN 10 * DecVal(frac) ELSE DecVal(frac)))
            ELSE None

\* Amount.astype(str).str.replace('$','').str.replace(',','') -> to_numeric
CleanMoney(s) == ToNumeric(RemoveChar(RemoveChar(s, "$"), ","))

\* Series.sum(): missing values are skipped, the empty sum is 0.
RECURSIVE NanSum(_)
NanSum(vals) ==
    IF vals = <<>> THEN 0
    ELSE (IF Head(vals) = None THEN 0 ELSE Head(vals)[1]) + NanSum(Tail(vals))

month_order ==
    <<"January", "February", "March", "April", "May", "June", "July",
      "August", "September", "October", "November", "December">>

\* strftime('%B')
MonthName(d) == month_order[d.month]

\* ------------------------------------------------------------ sequences
RECURSIVE Filter(_, _)
\* The members of seq whose position is in keep, in their order.
Filter(seq, keep) ==
    IF seq = <<>> THEN <<>>
    ELSE LET n == Len(seq)
             init == Filter(SubSeq(seq, 1, n - 1), keep)
         IN IF n \in keep THEN Append(init, seq[n]) ELSE init

RECURSIVE Unique(_)
\* Series.unique(): the distinct values in order of first appearance.
Unique(seq) ==
    IF seq = <<>> THEN <<>>
    ELSE LET n == Len(seq)
             init == Unique(SubSeq(seq, 1, n - 1))
         IN IF \E i \in DOMAIN init : init[i] = seq[n] THEN init
            ELSE Append(init, seq[n])

\* x put into the sequence sorted by key, after every member whose key is
\* not larger: the sort is stable.
RECURSIVE InsertByKey(_, _, _)
InsertByKey(sorted, x, key) ==
    IF sorted = <<>> THEN <<x>>
    ELSE IF key[x] < key[Head(sorted)] THEN <<x>> \o sorted
    ELSE <<Head(sorted)>> \o InsertByKey(Tail(sorted), x, key)

RECURSIVE SortByKey(_, _)
\* list.sort(key=...): ascending by key[x], stable.
SortByKey(seq, key) ==
    IF seq = <<>> THEN <<>>
    ELSE InsertByKey(SortByKey(SubSeq(seq, 1, Len(seq) - 1), key), seq[Len(seq)], key)

RECURSIVE SortedDesc(_)
\* sorted(values, reverse=True) of a set of integers.
SortedDesc(S) ==
    IF S = {} THEN <<>>
    ELSE LET m == CHOOSE x \in S : \A y \in S : y <= x
         IN <<m>> \o SortedDesc(S \ {m})

Range(seq) == {seq[i] : i \in DOMAIN seq}

\* ------------------------------------------------------------ get_data
\* What one call to the Record Source can answer.
FetchOutcomes == {"ok", "SpreadsheetNotFound", "WorksheetNotFound", "APIError"}

Raised(name) == [ok |-> FALSE, error |-> name, columns |-> <<>>, rows |-> <<>>]

\* The mutant of GetData: a sheet without a header row is an empty frame.
GetDataNoHeaderIsEmpty(outcome, data) ==
    IF outcome # "ok" THEN Raised(outcome)
    ELSE IF data = <<>> THEN [ok |-> TRUE, error |-> "", columns |-> <<>>, rows |-> <<>>]
    ELSE [ok |-> TRUE, error |-> "",
          columns |-> [i \in DOMAIN data[1] |-> Strip(data[1][i])],
          rows |-> [i \in DOMAIN Tail(data) |-> [idx |-> i, cells |-> Tail(data)[i]]]]

\* get_data(): open the workbook, find the worksheet, read all values; the
\* first row is the header, trimmed, the rest are the rows of the frame,
\* indexed by position.
GetData(outcome, data) ==
    IF outcome # "ok" THEN Raised(outcome)
    ELSE IF data = <<>> THEN Raised("IndexError")
    ELSE LET headers == data[1]
             rows == Tail(data)
             cleaned_headers == [i \in DOMAIN headers |-> Strip(headers[i])]
         IN IF \E i \in DOMAIN rows : Len(rows[i]) # Len(cleaned_headers)
            THEN Raised("ValueError")
            ELSE [ok |-> TRUE, error |-> "", columns |-> cleaned_headers,
                  rows |-> [i \in DOMAIN rows |-> [idx |-> i, cells |-> rows[i]]]]

\* ------------------------------------------------------------ cleaning
HasCol(columns, name) == \E i \in DOMAIN columns : columns[i] = name

ColIndex(columns, name) ==
    CHOOSE i \in DOMAIN columns :
        columns[i] = name /\ \A j \in DOMAIN columns : columns[j] = name => i <= j

Cell(columns, row, name) == row.cells[ColIndex(columns, name)]

\* line 54: the rows whose Date is not empty after trimming.
NonBlankDates(columns, rows) ==
    Filter(rows, {i \in DOMAIN rows : Strip(Cell(columns, rows[i], H_Date)) # <<>>})

\* line 55: the Date Object column.
WithDateObject(columns, rows) ==
    [i \in DOMAIN rows |->
        [idx |-> rows[i].idx, cells |-> rows[i].cells,
         DateObject |-> ToDatetime(Cell(columns, rows[i], H_Date))]]

\* line 56: dropna(subset=['Date Object'])
DropNaT(rows) == Filter(rows, {i \in DOMAIN rows : rows[i].DateObject # None})

\* The mutant of WithAmount: the rows whose Amount is no number are dropped.
WithAmountDropNa(columns, rows) ==
    LET kept == Filter(rows, {i \in DOMAIN rows :
                    CleanMoney(Cell(columns, rows[i], H_Amount)) # None})
    IN [i \in DOMAIN kept |->
        [idx |-> kept[i].idx, cells |-> kept[i].cells, DateObject |-> kept[i].DateObject,
         Amount |-> CleanMoney(Cell(columns, kept[i], H_Amount))]]

\* line 59: the Amount column becomes numeric; no row is removed.
WithAmount(columns, rows) ==
    [i \in DOMAIN rows |->
        [idx |-> rows[i].idx, cells |-> rows[i].cells, DateObject |-> rows[i].DateObject,
         Amount |-> CleanMoney(Cell(columns, rows[i], H_Amount))]]

\* lines 62-64: Year, Month_Name and Month_Year of each record.
WithTimeColumns(rows) ==
    [i \in DOMAIN rows |->
        LET d == rows[i].DateObject[1] IN
        [idx |-> rows[i].idx, cells |-> rows[i].cells, DateObject |-> d,
         Amount |-> rows[i].Amount,
         Year |-> d.year, Month_Name |-> MonthName(d),
         Month_Year |-> <<MonthName(d), d.year>>]]

\* lines 54-64 for a frame that has the Date and Amount columns.
Clean(columns, rows) ==
    WithTimeColumns(WithAmount(columns,
        DropNaT(WithDateObject(columns, NonBlankDates(columns, rows)))))

\* ------------------------------------------------------------ views
\* st.selectbox(label, options) when the user's choice is the i-th option;
\* with no options it returns None.
Selectbox(options, i) == IF options = <<>> THEN None ELSE Some(options[i])

\* The positions a selectbox over these options can return.
Picks(options) == IF options = <<>> THEN {1} ELSE DOMAIN options

\* line 70: sorted(df['Year'].unique(), reverse=True)
AvailableYears(df) == SortedDesc({df[i].Year : i \in DOMAIN df})

\* line 74: df[df['Year'] == selected_year]
YearDf(df, selected_year) ==
    Filter(df, {i \in DOMAIN df : Some(df[i].Year) = selected_year})

\* df['Amount'].sum()
Total(recs) == NanSum([i \in DOMAIN recs |-> recs[i].Amount])

\* lines 81-82: the sum over the records whose Doctor contains the pattern.
DoctorTotal(columns, recs, pat) ==
    Total(Filter(recs, {i \in DOMAIN recs :
                    StrContains(Cell(columns, recs[i], H_Doctor), pat)}))

\* The mutant of MonthKey: the months sort by name.
MonthKeyAlphabetical(names) ==
    LET by_name == <<"April", "August", "December", "February", "January", "July",
                     "June", "March", "May", "November", "October", "September">>
    IN [x \in Range(names) |->
            IF \E i \in DOMAIN by_name : by_name[i] = x
            THEN (CHOOSE i \in DOMAIN by_name : by_name[i] = x) - 1
            ELSE 99]

\* line 100: month_order.index(x) if x in month_order else 99
MonthKey(names) ==
    [x \in Range(names) |->
        IF \E i \in DOMAIN month_order : month_order[i] = x
        THEN (CHOOSE i \in DOMAIN month_order : month_order[i] = x) - 1
        ELSE 99]

\* lines 97-100: the months of the year's records, in calendar order.
AvailableMonths(year_df) ==
    LET names == Unique([i \in DOMAIN year_df |-> year_df[i].Month_Name])
    IN SortByKey(names, MonthKey(names))

\* line 102
ViewOptions(year_df) == <<AllMonths>> \o AvailableMonths(year_df)

\* The mutant of DisplayDf: the month filter is applied to every choice.
DisplayDfAlwaysFiltered(year_df, selected_month_view) ==
    Filter(year_df, {i \in DOMAIN year_df :
                        year_df[i].Month_Name = selected_month_view})

\* lines 106-111
DisplayDf(year_df, selected_month_view) ==
    IF selected_month_view = AllMonths THEN year_df
    ELSE Filter(year_df, {i \in DOMAIN year_df :
                            year_df[i].Month_Name = selected_month_view})

DateOrdinal(d) == d.year * 10000 + d.month * 100 + d.day

\* lines 119-124: the records by date, most recent first, projected on the
\* four display columns (records of one date keep their order).
DisplayTable(columns, display_df) ==
    LET key == [r \in Range(display_df) |-> 0 - DateOrdinal(r.DateObject)]
        sorted == SortByKey(display_df, key)
    IN [i \in DOMAIN sorted |->
        [idx |-> sorted[i].idx,
         Date |-> Cell(columns, sorted[i], H_Date),
         Sender |-> Cell(columns, sorted[i], H_Sender),
         Amount |-> sorted[i].Amount,
         Doctor |-> Cell(columns, sorted[i], H_Doctor)]]

\* ------------------------------------------------------------ main
\* What a run has put on the page.  widgets lists the rendered elements in
\* order; the other fields are the values behind them.
BlankPage ==
    [outcome |-> "none", error |-> "", widgets |-> <<>>,
     df |-> <<>>, available_years |-> <<>>, selected_year |-> None,
     year_df |-> <<>>, year_total |-> 0, year_tripic |-> 0, year_cartagena |-> 0,
     view_options |-> <<>>, selected_month_view |-> None,
     table |-> <<>>, month_total |-> 0]

\* st.error(...) followed by st.stop(): the run ends with one message.
ErrorPage(name) ==
    [BlankPage EXCEPT !.outcome = "error", !.error = name,
                      !.widgets = <<"button", "error">>]

\* line 127
InfoPage == [BlankPage EXCEPT !.outcome = "info", !.widgets = <<"button", "info">>]

\* An exception nothing catches ends the run where it is raised.
ExceptionPage(page, name) == [page EXCEPT !.outcome = "exception", !.error = name]

\* lines 66-124, for a cleaned frame: the selectors, the metrics, the table.
Dashboard(columns, df, yi, mi) ==
    LET available_years == AvailableYears(df)
        selected_year == Selectbox(available_years, yi)
        year_df == YearDf(df, selected_year)
        p1 == [BlankPage EXCEPT
                 !.widgets = <<"button", "header", "year_selector", "title">>,
                 !.df = df, !.available_years = available_years,
                 !.selected_year = selected_year, !.year_df = year_df]
    IN IF ~HasCol(columns, H_Doctor) THEN ExceptionPage(p1, "KeyError")
       ELSE
       LET view_options == ViewOptions(year_df)
           selected_month_view == Selectbox(view_options, mi)[1]
           display_df == DisplayDf(year_df, selected_month_view)
           p2 == [p1 EXCEPT
                    !.widgets = p1.widgets \o
                        <<"metric_total", "metric_tripic", "metric_cartagena",
                          "divider", "subheader", "month_selector", "markdown">>,
                    !.year_total = Total(year_df),
                    !.year_tripic = DoctorTotal(columns, year_df, PatTripic),
                    !.year_cartagena = DoctorTotal(columns, year_df, PatCartagena),
                    !.view_options = view_options,
                    !.selected_month_view = Some(selected_month_view),
                    !.month_total = Total(display_df)]
       IN IF ~HasCol(columns, H_Sender) THEN ExceptionPage(p2, "KeyError")
          ELSE [p2 EXCEPT !.outcome = "dashboard",
                          !.widgets = p2.widgets \o <<"dataframe">>,
                          !.table = DisplayTable(columns, display_df)]

\* main() from line 46 on, given what get_data() returned and the positions
\* the user's choices have in the two selectors.  Line 52 tests df.empty on
\* the frame as fetched; a frame that cleaning empties goes on to the
\* dashboard, whose year selector then has no option and returns None.  The
\* column lookups of lines 54-121 are outside the try block of lines 46-50.
Main(frame, yi, mi) ==
    IF ~frame.ok THEN ErrorPage(frame.error)
    ELSE IF frame.rows = <<>> \/ frame.columns = <<>> THEN InfoPage
    ELSE IF ~HasCol(frame.columns, H_Date)
         THEN ExceptionPage([BlankPage EXCEPT !.widgets = <<"button">>], "KeyError")
    ELSE IF ~HasCol(frame.columns, H_Amount)
         THEN ExceptionPage([BlankPage EXCEPT !.widgets = <<"button">>], "KeyError")
    ELSE Dashboard(frame.columns, Clean(frame.columns, frame.rows), yi, mi)

\* The positions the year selector of this run can return.
YearPicks(frame) ==
    IF frame.ok /\ frame.rows # <<>> /\ HasCol(frame.columns, H_Date)
       /\ HasCol(frame.columns, H_Amount)
    THEN Picks(AvailableYears(Clean(frame.columns, frame.rows)))
    ELSE {1}

\* The positions the month selector of this run can return.
MonthPicks(frame, yi) ==
    IF frame.ok /\ frame.rows # <<>> /\ HasCol(frame.columns, H_Date)
       /\ HasCol(frame.columns, H_Amount)
    THEN LET df == Clean(frame.columns, frame.rows)
         IN Picks(ViewOptions(YearDf(df, Selectbox(AvailableYears(df), yi))))
    ELSE {1}

\* ------------------------------------------------------------ worksheet
\* The texts the worksheet's cells are drawn from.
D_Blank == <<" ">>

D_Feb30 == <<"2","0","2","5","-","0","2","-","3","0">>

D_2025_11_01 == <<"2","0","2","5","-","1","1","-","0","1">>

D_2025_12_15 == <<"2","0","2","5","-","1","2","-","1","5">>

D_2025_12_20 == <<"2","0","2","5","-","1","2","-","2","0">>

D_2024_11_20 == <<"2","0","2","4","-","1","1","-","2","0">>

A_100 == <<"$","1","0","0",".","0","0">>

A_1234 == <<"$","1",",","2","3","4",".","5","6">>

A_30 == <<"3","0">>

A_50 == <<"5","0">>

A_abc == <<"a","b","c">>

A_Empty == <<>>

Doc_Tripic == <<"D","r","."," ","T","r","i","p","i","c">>

Doc_Both == <<"T","r","i","p","i","c","/","C","A","R","T","A","G","E","N","A">>

Doc_CARTAGENA == <<"D","R","."," ","C","A","R","T","A","G","E","N","A">>

Doc_Smith == <<"D","r","."," ","S","m","i","t","h">>

Doc_cartagena == <<"d","r","."," ","c","a","r","t","a","g","e","n","a">>

\* The header rows a worksheet is given: the exact names, the names with
\* surrounding blanks, and a sheet whose date column is called Day.
HeaderPool ==
    {<<H_Date, H_Sender, H_Amount, H_Doctor>>,
     <<<<" ","D","a","t","e"," ">>, H_Sender, <<"A","m","o","u","n","t"," ">>, H_Doctor>>,
     <<<<"D","a","y">>, H_Sender, H_Amount, H_Doctor>>}

\* The data rows a worksheet is given (Date, Sender, Amount, Doctor).
RowPool ==
    {<<D_2025_11_01, <<"A">>, A_100, Doc_Tripic>>,
     <<D_2025_12_15, <<"B">>, A_1234, Doc_Both>>,
     <<D_Blank, <<"C">>, A_30, Doc_Tripic>>,
     <<D_Feb30, <<"D">>, A_50, Doc_CARTAGENA>>,
     <<D_2025_12_20, <<"E">>, A_abc, Doc_Smith>>,
     <<D_2024_11_20, <<"F">>, A_Empty, Doc_cartagena>>}

\* ------------------------------------------------------------ state
VARIABLES
    source,       \* the worksheet: what get_all_values() returns now
    cache,        \* Streamlit's caches: cache_data and cache_resource
    connections,  \* how many connection objects have been created
    fetches,      \* how many times the worksheet has been read
    fetched,      \* what the last run's get_data() was answered, over which connection
    event,        \* the last step: the interaction that started a run, or an edit
    page          \* what the last run rendered

vars == <<source, cache, connections, fetches, fetched, event, page>>

Init ==
    /\ source = <<>>
    /\ cache = [data |-> {}, resource |-> None]
    /\ connections = 0
    /\ fetches = 0
    /\ fetched = [outcome |-> "none", conn |-> 0, data |-> <<>>]
    /\ event = "none"
    /\ page = BlankPage

\* The mutant of CacheDataClear: every cache is cleared, the connection too.
CacheClearAll(c) == [data |-> {}, resource |-> None]

\* line 43: st.cache_data.clear()
CacheDataClear(c) == [c EXCEPT !.data = {}]

\* The answers get_connection() can get when it has to create a connection:
\* the credentials are accepted or not.  A cached connection is returned as
\* it is.
ConnAnswers(c) == IF c.resource = None THEN BOOLEAN ELSE {TRUE}

\* One run of main() from line 46 on, with the caches as c.  get_connection()
\* returns the cached connection or creates one (conn_ok); get_data() is
\* answered by the source (outcome); each selector returns its first option
\* (first) or any of its options.
Run(c, conn_ok, outcome, first) ==
    IF c.resource = None /\ ~conn_ok
    THEN \* get_connection(): st.error, st.stop; nothing is cached
         /\ cache' = c
         /\ page' = ErrorPage("ConnectionError")
         /\ fetched' = [outcome |-> "ConnectionError", conn |-> 0, data |-> <<>>]
         /\ UNCHANGED <<source, connections, fetches>>
    ELSE /\ fetches < MaxFetches
         /\ IF c.resource = None
            THEN /\ connections < MaxConnections
                 /\ connections' = connections + 1
                 /\ cache' = [c EXCEPT !.resource = Some(connections + 1)]
            ELSE /\ connections' = connections
                 /\ cache' = c
         /\ fetches' = fetches + 1
         /\ fetched' = [outcome |-> outcome,
                        conn |-> cache'.resource[1],
                        data |-> IF outcome = "ok" THEN source ELSE <<>>]
         /\ LET frame == GetData(outcome, source)
            IN \E yi \in (IF first THEN {1} ELSE YearPicks(frame)) :
                 \E mi \in (IF first THEN {1} ELSE MonthPicks(frame, yi)) :
                    page' = Main(frame, yi, mi)
         /\ UNCHANGED source

\* The page is opened or reloaded: both selectors are at their first option.
PageLoad ==
    \E conn_ok \in ConnAnswers(cache), outcome \in FetchOutcomes :
        /\ Run(cache, conn_ok, outcome, TRUE)
        /\ event' = "load"

\* The user picks a year or a month: Streamlit runs main() again.
SelectorChange ==
    /\ \E i \in DOMAIN page.widgets : page.widgets[i] = "year_selector"
    /\ \E conn_ok \in ConnAnswers(cache), outcome \in FetchOutcomes :
        /\ Run(cache, conn_ok, outcome, FALSE)
        /\ event' = "select"

\* lines 42-44: the button clears cache_data and reruns main().
ForceRefresh ==
    /\ \E i \in DOMAIN page.widgets : page.widgets[i] = "button"
    /\ \E conn_ok \in ConnAnswers(CacheDataClear(cache)), outcome \in FetchOutcomes :
        /\ Run(CacheDataClear(cache), conn_ok, outcome, FALSE)
        /\ event' = "refresh"

\* Someone gives the empty worksheet its header row.
WriteHeader ==
    /\ source = <<>>
    /\ \E h \in HeaderPool : source' = <<h>>
    /\ event' = "edit"
    /\ UNCHANGED <<cache, connections, fetches, fetched, page>>

\* Someone adds a payment row to the worksheet.
AppendRow ==
    /\ source # <<>>
    /\ Len(source) < MaxRows + 1
    /\ \E r \in RowPool : source' = Append(source, r)
    /\ event' = "edit"
    /\ UNCHANGED <<cache, connections, fetches, fetched, page>>

Next == PageLoad \/ SelectorChange \/ ForceRefresh \/ WriteHeader \/ AppendRow

Spec == Init /\ [][Next]_vars

\* ------------------------------------------------------------ claims
\* What the claims say of the worksheet's texts, stated on the texts
\* themselves and not through the parsers above.
NotADate == {D_Feb30}

NotANumber == {A_abc, A_Empty}

MentionsTripic == {Doc_Tripic, Doc_Both}

MentionsCartagena == {Doc_Both, Doc_CARTAGENA, Doc_cartagena}

\* The last run read a table with a header row.
FetchedTable == fetched.outcome = "ok" /\ fetched.data # <<>>

FetchedColumns == [i \in DOMAIN fetched.data[1] |-> Strip(fetched.data[1][i])]

\* The data rows of the fetched table, each with its position.
FetchedRows ==
    [i \in DOMAIN Tail(fetched.data) |-> [idx |-> i, cells |-> Tail(fetched.data)[i]]]

\* The positions of the fetched rows whose Date is blank or no date.
BadDateRows ==
    {i \in DOMAIN FetchedRows :
        LET d == Cell(FetchedColumns, FetchedRows[i], H_Date)
        IN Strip(d) = <<>> \/ d \in NotADate}

\* The positions of the fetched rows with a date and an Amount that is no
\* number.
BadAmountRows ==
    {i \in DOMAIN FetchedRows :
        /\ i \notin BadDateRows
        /\ Cell(FetchedColumns, FetchedRows[i], H_Amount) \in NotANumber}

IdxOf(recs) == {recs[i].idx : i \in DOMAIN recs}

Without(recs, gone) == Filter(recs, {i \in DOMAIN recs : recs[i].idx \notin gone})

AmountOrZero(r) == IF r.Amount = None THEN 0 ELSE r.Amount[1]

RECURSIVE SumOver(_, _)
SumOver(f, seq) == IF seq = <<>> THEN 0 ELSE f[Head(seq)] + SumOver(f, Tail(seq))

\* C1: in every dashboard a run renders, a fetched row whose Date is blank
\* or is no date is in neither the record set nor the displayed table, every
\* sum is the sum the run would show had the worksheet not held these rows,
\* and the record set has no more rows than the fetched table.
C1_BadDatesExcluded ==
    page.outcome = "dashboard" =>
        LET ref_df == Clean(FetchedColumns, Without(FetchedRows, BadDateRows))
            ref_year == YearDf(ref_df, page.selected_year)
            ref_view == DisplayDf(ref_year, page.selected_month_view[1])
        IN /\ IdxOf(page.df) \cap BadDateRows = {}
           /\ IdxOf(page.table) \cap BadDateRows = {}
           /\ page.year_total = Total(ref_year)
           /\ page.year_tripic = DoctorTotal(FetchedColumns, ref_year, PatTripic)
           /\ page.year_cartagena = DoctorTotal(FetchedColumns, ref_year, PatCartagena)
           /\ page.month_total = Total(ref_view)
           /\ Len(page.df) <= Len(FetchedRows)

\* A dashboard with rows on it, rendered from a table that also held a row
\* with a bad date.
C1_Witness ==
    /\ page.outcome = "dashboard"
    /\ page.table # <<>>
    /\ BadDateRows # {}

\* C2: whenever the fetched table has the Date and Amount columns and no
\* data row, or no data row with a date, the run ends in the "no data"
\* message and renders nothing else.
C2_EmptyDatasetIsInfo ==
    (/\ FetchedTable
     /\ HasCol(FetchedColumns, H_Date)
     /\ HasCol(FetchedColumns, H_Amount)
     /\ BadDateRows = DOMAIN FetchedRows)
    => page = InfoPage

\* C3: whenever the fetched table has a data row and no Date column, the run
\* ends like a failed fetch, in the one error message.
C3_SchemaMismatchIsError ==
    (/\ FetchedTable
     /\ FetchedRows # <<>>
     /\ ~HasCol(FetchedColumns, H_Date))
    => (page.outcome = "error" /\ page.widgets = <<"button", "error">>)

\* C4: a change of the year or the month selector does not read the source:
\* the number of fetches stays as it is.
C4_SelectorChangeDoesNotFetch == [][SelectorChange => fetches' = fetches]_vars

\* The positions of the data rows of a worksheet whose Date is a date.
DatedRows(data) ==
    LET columns == [i \in DOMAIN data[1] |-> Strip(data[1][i])]
        rows == Tail(data)
    IN {i \in DOMAIN rows :
            LET d == rows[i][ColIndex(columns, H_Date)]
            IN Strip(d) # <<>> /\ d \notin NotADate}

\* C5: right after every run that reached the source, a run after a force
\* refresh among them, what get_data() returned is the worksheet as it is,
\* the record set holds exactly the worksheet's dated rows, and the run went
\* over the first connection created, the only one there is.
C5_FreshDataSameConnection ==
    (event \in {"load", "select", "refresh"} /\ fetched.outcome \in FetchOutcomes) =>
        /\ fetched.conn = 1
        /\ connections = 1
        /\ cache.resource = Some(1)
        /\ fetched.outcome = "ok" => fetched.data = source
        /\ page.outcome = "dashboard" =>
              /\ IdxOf(page.df) = DatedRows(source)
              /\ \A k \in DOMAIN page.df : page.df[k].cells = source[page.df[k].idx + 1]

\* A force refresh has rendered a dashboard from a worksheet that was read
\* before, over the connection made then.
C5_Witness ==
    /\ event = "refresh"
    /\ page.outcome = "dashboard"
    /\ fetches = 2
    /\ fetched.conn = 1
    /\ Len(source) > 1

\* C6: when the workbook cannot be opened, the worksheet is not found, the
\* read fails or the worksheet has no header row, the page is the one error
\* message: no record set, no selector, no metric, no table.
C6_SourceUnavailableShortCircuits ==
    (\/ fetched.outcome \in FetchOutcomes \ {"ok"}
     \/ (fetched.outcome = "ok" /\ fetched.data = <<>>))
    => page = ErrorPage(page.error)

\* A run has read a worksheet without a header row and shown the error.
C6_Witness ==
    /\ fetched.outcome = "ok"
    /\ fetched.data = <<>>
    /\ page.outcome = "error"
    /\ page.error = "IndexError"

\* C7: with "All Months" chosen, the displayed records are the union of the
\* month-filtered records over the year's month options, every record of the
\* year is in exactly one of them, and the total is the sum of their totals.
C7_AllMonthsIsUnionOfMonths ==
    (page.outcome = "dashboard" /\ page.selected_month_view = Some(AllMonths)) =>
        LET months == Tail(page.view_options)
            sub == [m \in Range(months) |-> DisplayDf(page.year_df, m)]
            totals == [m \in Range(months) |-> Total(sub[m])]
        IN /\ IdxOf(page.table) = UNION {IdxOf(sub[m]) : m \in Range(months)}
           /\ \A i \in IdxOf(page.year_df) :
                 Cardinality({m \in Range(months) : i \in IdxOf(sub[m])}) = 1
           /\ page.month_total = SumOver(totals, months)

\* "All Months" shown for a year that has records in two months.
C7_Witness ==
    /\ page.outcome = "dashboard"
    /\ page.selected_month_view = Some(AllMonths)
    /\ Len(page.view_options) >= 3
    /\ page.month_total > 0

\* C8: each record of the selected year adds its amount once to the yearly
\* total, to the Tripic total exactly when its Doctor mentions Tripic in any
\* letter case, and to the Cartagena total exactly when it mentions
\* Cartagena; the two do not depend on each other.
C8_DoctorTotalsIndependent ==
    page.outcome = "dashboard" =>
        \A i \in DOMAIN page.year_df :
            LET r == page.year_df[i]
                rest == Without(page.year_df, {r.idx})
                doctor == Cell(FetchedColumns, r, H_Doctor)
            IN /\ page.year_total = Total(rest) + AmountOrZero(r)
               /\ page.year_tripic =
                     DoctorTotal(FetchedColumns, rest, PatTripic)
                     + (IF doctor \in MentionsTripic THEN AmountOrZero(r) ELSE 0)
               /\ page.year_cartagena =
                     DoctorTotal(FetchedColumns, rest, PatCartagena)
                     + (IF doctor \in MentionsCartagena THEN AmountOrZero(r) ELSE 0)

\* A year with a record that mentions both doctors: the two doctor totals
\* do not add up to the yearly total.
C8_Witness ==
    /\ page.outcome = "dashboard"
    /\ \E i \in DOMAIN page.year_df :
          /\ Cell(FetchedColumns, page.year_df[i], H_Doctor) = Doc_Both
          /\ page.year_df[i].Amount # None
    /\ page.year_tripic + page.year_cartagena # page.year_total

\* C9: the month options are "All Months" and then the months of the selected
\* year's records, each once, in calendar order; a chosen month has records.
C9_MonthOptions ==
    page.outcome = "dashboard" =>
        LET months == Tail(page.view_options)
            calendar == [m \in Range(months) |->
                            CHOOSE k \in DOMAIN month_order : month_order[k] = m]
        IN /\ page.view_options[1] = AllMonths
           /\ Range(months) =
                 {page.df[i].Month_Name :
                     i \in {j \in DOMAIN page.df : Some(page.df[j].Year) = page.selected_year}}
           /\ \A a, b \in DOMAIN months : a < b => calendar[months[a]] < calendar[months[b]]
           /\ \A m \in Range(months) : DisplayDf(page.year_df, m) # <<>>
           /\ page.selected_month_view # Some(AllMonths) => page.table # <<>>

\* A year whose first record is of December and whose options list November
\* before December, with a specific month chosen.
C9_Witness ==
    /\ page.outcome = "dashboard"
    /\ page.year_df # <<>>
    /\ page.year_df[1].Month_Name = "December"
    /\ page.view_options = <<AllMonths, "November", "December">>
    /\ page.selected_month_view = Some("December")

\* C10: a fetched row with a date and an Amount that is no number is a record
\* with a missing amount, is displayed whenever its year and month are
\* chosen, and every sum is what it is without that record.
C10_BadAmountKeptAsZero ==
    page.outcome = "dashboard" =>
        \A i \in BadAmountRows :
            LET rest == Without(page.year_df, {i})
                shown == Without(DisplayDf(page.year_df, page.selected_month_view[1]), {i})
            IN /\ \E k \in DOMAIN page.df : page.df[k].idx = i /\ page.df[k].Amount = None
               /\ \A k \in DOMAIN page.df :
                     (/\ page.df[k].idx = i
                      /\ Some(page.df[k].Year) = page.selected_year
                      /\ page.selected_month_view[1] \in {AllMonths, page.df[k].Month_Name})
                     => i \in IdxOf(page.table)
               /\ page.year_total = Total(rest)
               /\ page.year_tripic = DoctorTotal(FetchedColumns, rest, PatTripic)
               /\ page.year_cartagena = DoctorTotal(FetchedColumns, rest, PatCartagena)
               /\ page.month_total = Total(shown)

\* A displayed record with a missing amount beside one that has an amount.
C10_Witness ==
    /\ page.outcome = "dashboard"
    /\ \E k \in DOMAIN page.table :
          page.table[k].idx \in BadAmountRows /\ page.table[k].Amount = None
    /\ page.month_total > 0

====
